---------------------------- MODULE Spec2Model ----------------------------
(***************************************************************************)
(* ComputationManager (src/code/src/computationmanager.cpp, lines 1-174):  *)
(* a Hoare monitor shared by client threads and compute-engine threads.    *)
(*                                                                         *)
(* A thread is outside the monitor (pc = "idle"), suspended in wait() on a *)
(* condition (a *_wait label, running # t), suspended inside signal()      *)
(* after handing the monitor to a waiter (a *_sig label, running # t), or  *)
(* it holds the monitor (running = t) and its label says where it resumes. *)
(* Every action is the code a thread executes between two points where the *)
(* monitor changes hands.                                                  *)
(***************************************************************************)
EXTENDS Integers, Sequences, FiniteSets, TLC

\* ------------------------------------------------------------- bounds ----
NumThreads == 3          \* threads calling the manager (Spec)
NumTypes   == 2          \* computation types in use (the enum has A, B, C)
MaxId      == 3          \* requestComputation stops being called at this id
MaxQueueSize == 1        \* constructor argument maxQueueSize (Spec, SpecLive)
FifoQueueSize == 3       \* constructor argument maxQueueSize (SpecFifo)
IdsBefore  == 1          \* ids issued by a manager constructed earlier (SpecSecondManager)

Threads == 1..NumThreads
Types   == 0..(NumTypes - 1)
Ids     == 0..(MaxId - 1)

\* engines (one per type), one submitting client, one consuming client
LiveThreads == 1..(NumTypes + 2)
Requester   == NumTypes + 1
Consumer    == NumTypes + 2
EngineOf(T) == T + 1

\* ------------------------------------------------------------ constants --
Free    == 0     \* the monitor mutex is released
Leaked  == -1    \* the monitor was left without monitorOut(): held for ever
NoValue == -1    \* std::nullopt in ResultWithId::result

VARIABLES
  buffer,      \* std::map<ComputationType, std::list<Request>>: type -> ids, front first
  results,     \* std::list<ResultWithId>: front first, each [id, result]
  nextId,      \* static int nextId
  stopped,     \* bool stopped
  MAX_TOLERATED_QUEUE_SIZE,   \* const size_t, set by the constructor
  running,     \* the thread inside the monitor, Free or Leaked
  pc,          \* where each thread is
  arg,         \* the local (type, id, iterator, loop index) a suspended thread keeps
  ret,         \* the last value returned (or exception thrown) by an operation
  delivered,   \* ids of the Results returned by getNextResult, in order
  abortedQ,    \* ids abortComputation found in a per-type queue
  abortedL,    \* ids abortComputation found in the ledger only
  dispatched   \* <<id, type>> of the Requests returned by getWork

data == <<buffer, results, nextId, stopped, MAX_TOLERATED_QUEUE_SIZE>>
hist == <<delivered, abortedQ, abortedL, dispatched>>
vars == <<buffer, results, nextId, stopped, MAX_TOLERATED_QUEUE_SIZE,
          running, pc, arg, ret, delivered, abortedQ, abortedL, dispatched>>

WaitLabels == {"rc_wait", "gw_wait", "gnr_wait"}
SigLabels  == {"rc_sig32", "rc_sig41", "ab_sig58", "ab_sig70", "gnr_sig91",
               "gw_sig116", "gw_sig123", "pr_sig155",
               "stop_sig166", "stop_sig168", "stop_sig171"}
StopLabels == {"stop_sig166", "stop_sig168", "stop_sig171"}

\* what a call gave back.  StopException (computationmanager.h 180-184) is
\* thrown when a thread is about to wait on a stopped manager
\* ("StoppedBeforeWait") or is woken on one ("StoppedAfterWait").
Ret(op, kind) == [op |-> op, kind |-> kind]
IsStopped(r) == r.kind \in {"StoppedBeforeWait", "StoppedAfterWait"}

\* ------------------------------------------------------- list helpers ----
PushFront(s, x) == <<x>> \o s
Back(s)         == s[Len(s)]
PopBack(s)      == SubSeq(s, 1, Len(s) - 1)
Erase(s, i)     == SubSeq(s, 1, i - 1) \o SubSeq(s, i + 1, Len(s))

\* std::find_if over a list of Requests: the first position holding id, 0 = end()
FindRequest(q, id) ==
  IF \E i \in 1..Len(q) : q[i] = id
  THEN CHOOSE i \in 1..Len(q) : q[i] = id /\ \A j \in 1..(i - 1) : q[j] # id
  ELSE 0

\* std::find_if over the ledger: the first position whose slot has this id, 0 = end()
FindResult(l, id) ==
  IF \E i \in 1..Len(l) : l[i].id = id
  THEN CHOOSE i \in 1..Len(l) : l[i].id = id /\ \A j \in 1..(i - 1) : l[j].id # id
  ELSE 0

\* the first type (map order) whose queue holds id, -1 when none does
FindQueue(id) ==
  IF \E T \in Types : FindRequest(buffer[T], id) # 0
  THEN CHOOSE T \in Types : /\ FindRequest(buffer[T], id) # 0
                            /\ \A U \in Types : U < T => FindRequest(buffer[U], id) = 0
  ELSE -1

\* ------------------------------------------------------ Hoare monitor ----
\* (mutant) one condition shared by all types: emptyQueuePerType[0] for every T
EmptyWaitersAnyType(T) == {u \in DOMAIN pc : pc[u] = "gw_wait" /\ running # u}

\* (mutant) one condition shared by all types: fullQueuePerType[0] for every T
FullWaitersAnyType(T) == {u \in DOMAIN pc : pc[u] = "rc_wait" /\ running # u}

\* threads suspended in wait(fullQueuePerType[T]) etc.
FullWaiters(T)  == {u \in DOMAIN pc : pc[u] = "rc_wait" /\ arg[u] = T /\ running # u}
EmptyWaiters(T) == {u \in DOMAIN pc : pc[u] = "gw_wait" /\ arg[u] = T /\ running # u}
ResultWaiters   == {u \in DOMAIN pc : pc[u] = "gnr_wait" /\ running # u}

\* threads suspended inside signal(), waiting to get the monitor back
Signalers(t) == {u \in DOMAIN pc \ {t} : pc[u] \in SigLabels}

\* monitorIn(): the mutex is free
MonitorIn(t) == running = Free /\ pc[t] = "idle"

\* signal(cond): hand the monitor to one thread waiting on cond and suspend
\* until it is given back; with no waiter the signaller just goes on at label
Signal(t, waiters, label, a) ==
  /\ pc'  = [pc EXCEPT ![t] = label]
  /\ arg' = [arg EXCEPT ![t] = a]
  /\ \E w \in (IF waiters = {} THEN {t} ELSE waiters) : running' = w

\* monitorOut() and the releasing half of wait(): a suspended signaller gets
\* the monitor back if there is one, else the mutex is released
Release(t) ==
  \E n \in (IF Signalers(t) = {} THEN {Free} ELSE Signalers(t)) : running' = n

\* monitorOut() followed by return / throw
MonitorOut(t, r) ==
  /\ pc'  = [pc EXCEPT ![t] = "idle"]
  /\ arg' = [arg EXCEPT ![t] = 0]
  /\ ret' = r
  /\ Release(t)

\* wait(cond)
Wait(t, label, a) ==
  /\ pc'  = [pc EXCEPT ![t] = label]
  /\ arg' = [arg EXCEPT ![t] = a]
  /\ Release(t)

\* the thread holds the monitor and resumes at label
Resumes(t, label) == running = t /\ pc[t] = label

\* the manager as its constructor leaves it (lines 14-15), called by threads
\* ths.  nextId is a static member (line 17, header 236): it is 0 for the
\* first manager of the process and is not reset by the constructor.
InitOn(ths, maxQueueSize, firstId) ==
  /\ buffer = [T \in Types |-> <<>>]
  /\ results = <<>>
  /\ nextId = firstId
  /\ stopped = FALSE
  /\ MAX_TOLERATED_QUEUE_SIZE = maxQueueSize
  /\ running = Free
  /\ pc = [t \in ths |-> "idle"]
  /\ arg = [t \in ths |-> 0]
  /\ ret = Ret("none", "none")
  /\ delivered = <<>>
  /\ abortedQ = {}
  /\ abortedL = {}
  /\ dispatched = {}

Init == InitOn(Threads, MaxQueueSize, 0)


\* ------------------------------------------- requestComputation (21-44) --
\* lines 37-41: take the next id, queue the Request, open its ledger slot,
\* signal emptyQueuePerType[type]
\* (mutant) the counter is not advanced: Request req(c, nextId)
EnqueueSameId(t, T) ==
  /\ buffer'  = [buffer EXCEPT ![T] = PushFront(@, nextId)]
  /\ results' = PushFront(results, [id |-> nextId, result |-> NoValue])
  /\ nextId'  = nextId
  /\ Signal(t, EmptyWaiters(T), "rc_sig41", nextId)
  /\ UNCHANGED <<stopped, MAX_TOLERATED_QUEUE_SIZE, ret>>
  /\ UNCHANGED hist

\* (mutant) the ledger slot is added at the delivery end: emplace_back
EnqueueBack(t, T) ==
  /\ buffer'  = [buffer EXCEPT ![T] = PushFront(@, nextId)]
  /\ results' = Append(results, [id |-> nextId, result |-> NoValue])
  /\ nextId'  = nextId + 1
  /\ Signal(t, EmptyWaiters(T), "rc_sig41", nextId)
  /\ UNCHANGED <<stopped, MAX_TOLERATED_QUEUE_SIZE, ret>>
  /\ UNCHANGED hist

Enqueue(t, T) ==
  /\ buffer'  = [buffer EXCEPT ![T] = PushFront(@, nextId)]
  /\ results' = PushFront(results, [id |-> nextId, result |-> NoValue])
  /\ nextId'  = nextId + 1
  /\ Signal(t, EmptyWaiters(T), "rc_sig41", nextId)
  /\ UNCHANGED <<stopped, MAX_TOLERATED_QUEUE_SIZE, ret>>
  /\ UNCHANGED hist

\* (mutant) off by one: > instead of >=
QueueFullOffByOne(T) == Len(buffer[T]) > MAX_TOLERATED_QUEUE_SIZE

\* line 25: the queue of this type is full
QueueFull(T) == Len(buffer[T]) >= MAX_TOLERATED_QUEUE_SIZE

\* lines 23-30 (and 37-41 when the queue has room)
RequestComputation(t, T) ==
  /\ MonitorIn(t)
  /\ nextId + Cardinality({u \in DOMAIN pc : pc[u] = "rc_wait"}) < MaxId
  /\ IF QueueFull(T)
     THEN IF stopped
          THEN /\ MonitorOut(t, Ret("requestComputation", "StoppedBeforeWait"))
               /\ UNCHANGED data /\ UNCHANGED hist
          ELSE /\ Wait(t, "rc_wait", T)
               /\ UNCHANGED data /\ UNCHANGED ret /\ UNCHANGED hist
     ELSE Enqueue(t, T)

\* lines 31-41: resumed from wait(fullQueuePerType[type])
RequestWoken(t) ==
  /\ Resumes(t, "rc_wait")
  /\ IF stopped
     THEN /\ Signal(t, FullWaiters(arg[t]), "rc_sig32", 0)
          /\ UNCHANGED data /\ UNCHANGED ret /\ UNCHANGED hist
     ELSE Enqueue(t, arg[t])

\* lines 33-34: monitorOut, throw StopException
RequestStopped(t) ==
  /\ Resumes(t, "rc_sig32")
  /\ MonitorOut(t, Ret("requestComputation", "StoppedAfterWait"))
  /\ UNCHANGED data /\ UNCHANGED hist

\* lines 42-43: monitorOut, return id
RequestReturn(t) ==
  /\ Resumes(t, "rc_sig41")
  /\ MonitorOut(t, Ret("requestComputation", "id"))
  /\ UNCHANGED data /\ UNCHANGED hist

\* --------------------------------------------- abortComputation (47-76) --
\* lines 49-75, up to the first signal or the end of the function
AbortComputation(t, id) ==
  /\ MonitorIn(t)
  /\ LET T == FindQueue(id)
         i == FindResult(results, id)
     IN IF T # -1
        THEN \* lines 56-58: erase from the queue, signal fullQueuePerType[type]
             /\ buffer' = [buffer EXCEPT ![T] = Erase(@, FindRequest(@, id))]
             /\ Signal(t, FullWaiters(T), "ab_sig58", 0)
             /\ abortedQ' = abortedQ \cup {id}
             /\ UNCHANGED <<results, nextId, stopped, MAX_TOLERATED_QUEUE_SIZE, ret>>
             /\ UNCHANGED <<delivered, abortedL, dispatched>>
        ELSE IF i # 0
        THEN IF results[i].result = NoValue
             THEN \* lines 69-70: signal first, the slot is erased afterwards
                  /\ Signal(t, ResultWaiters, "ab_sig70", id)
                  /\ abortedL' = abortedL \cup {id}
                  /\ UNCHANGED data /\ UNCHANGED ret
                  /\ UNCHANGED <<delivered, abortedQ, dispatched>>
             ELSE \* lines 72-74
                  /\ results' = Erase(results, i)
                  /\ MonitorOut(t, Ret("abortComputation", "void"))
                  /\ abortedL' = abortedL \cup {id}
                  /\ UNCHANGED <<buffer, nextId, stopped, MAX_TOLERATED_QUEUE_SIZE>>
                  /\ UNCHANGED <<delivered, abortedQ, dispatched>>
        ELSE \* line 76: the function ends without monitorOut()
             /\ running' = Leaked
             /\ ret' = Ret("abortComputation", "void")
             /\ UNCHANGED <<pc, arg>>
             /\ UNCHANGED data /\ UNCHANGED hist

\* lines 59-60: monitorOut, return
AbortQueuedReturn(t) ==
  /\ Resumes(t, "ab_sig58")
  /\ MonitorOut(t, Ret("abortComputation", "void"))
  /\ UNCHANGED data /\ UNCHANGED hist

\* lines 72-74: results.erase(it), monitorOut, return
AbortLedgerErase(t) ==
  /\ Resumes(t, "ab_sig70")
  /\ results' = Erase(results, FindResult(results, arg[t]))
  /\ MonitorOut(t, Ret("abortComputation", "void"))
  /\ UNCHANGED <<buffer, nextId, stopped, MAX_TOLERATED_QUEUE_SIZE>>
  /\ UNCHANGED hist

\* ------------------------------------------------ getNextResult (81-101) --
\* line 84: the loop condition
MustWaitResult == results = <<>> \/ Back(results).result = NoValue

\* lines 84-100, entered at the loop test
NextResultLoop(t) ==
  IF MustWaitResult
  THEN IF stopped
       THEN /\ MonitorOut(t, Ret("getNextResult", "StoppedBeforeWait"))
            /\ UNCHANGED data /\ UNCHANGED hist
       ELSE /\ Wait(t, "gnr_wait", 0)
            /\ UNCHANGED data /\ UNCHANGED ret /\ UNCHANGED hist
  ELSE \* lines 97-100
       /\ results' = PopBack(results)
       /\ MonitorOut(t, Ret("getNextResult", "Result"))
       /\ delivered' = Append(delivered, Back(results).result)
       /\ UNCHANGED <<buffer, nextId, stopped, MAX_TOLERATED_QUEUE_SIZE>>
       /\ UNCHANGED <<abortedQ, abortedL, dispatched>>

GetNextResult(t) ==
  /\ MonitorIn(t)
  /\ NextResultLoop(t)

\* lines 90-95: resumed from wait(notExpectedResult)
NextResultWoken(t) ==
  /\ Resumes(t, "gnr_wait")
  /\ IF stopped
     THEN /\ Signal(t, ResultWaiters, "gnr_sig91", 0)
          /\ UNCHANGED data /\ UNCHANGED ret /\ UNCHANGED hist
     ELSE NextResultLoop(t)

\* lines 92-93
NextResultStopped(t) ==
  /\ Resumes(t, "gnr_sig91")
  /\ MonitorOut(t, Ret("getNextResult", "StoppedAfterWait"))
  /\ UNCHANGED data /\ UNCHANGED hist


\* ----------------------------------------------------- getWork (105-126) --
\* (mutant) the Request is taken at the front of the queue: front(), pop_front()
TakeWorkFront(t, T) ==
  /\ buffer[T] # <<>>
  /\ buffer' = [buffer EXCEPT ![T] = Tail(@)]
  /\ dispatched' = dispatched \cup {<<Head(buffer[T]), T>>}
  /\ Signal(t, FullWaiters(T), "gw_sig123", Head(buffer[T]))
  /\ UNCHANGED <<results, nextId, stopped, MAX_TOLERATED_QUEUE_SIZE, ret>>
  /\ UNCHANGED <<delivered, abortedQ, abortedL>>

\* (mutant) getWork opens the ledger slot: results.emplace_front(id, nullopt)
TakeWorkAddsSlot(t, T) ==
  /\ buffer[T] # <<>>
  /\ buffer' = [buffer EXCEPT ![T] = PopBack(@)]
  /\ results' = PushFront(results, [id |-> Back(buffer[T]), result |-> NoValue])
  /\ dispatched' = dispatched \cup {<<Back(buffer[T]), T>>}
  /\ Signal(t, FullWaiters(T), "gw_sig123", Back(buffer[T]))
  /\ UNCHANGED <<nextId, stopped, MAX_TOLERATED_QUEUE_SIZE, ret>>
  /\ UNCHANGED <<delivered, abortedQ, abortedL>>

\* lines 121-123: take the Request at the back of the queue, signal
\* fullQueuePerType[type].  Reading back() of an empty std::list is undefined.
TakeWork(t, T) ==
  /\ buffer[T] # <<>>
  /\ buffer' = [buffer EXCEPT ![T] = PopBack(@)]
  /\ dispatched' = dispatched \cup {<<Back(buffer[T]), T>>}
  /\ Signal(t, FullWaiters(T), "gw_sig123", Back(buffer[T]))
  /\ UNCHANGED <<results, nextId, stopped, MAX_TOLERATED_QUEUE_SIZE, ret>>
  /\ UNCHANGED <<delivered, abortedQ, abortedL>>

\* (mutant) the stopped test before wait() is missing
GetWorkNoStopTest(t, T) ==
  /\ MonitorIn(t)
  /\ IF buffer[T] = <<>>
     THEN /\ Wait(t, "gw_wait", T)
          /\ UNCHANGED data /\ UNCHANGED ret /\ UNCHANGED hist
     ELSE TakeWork(t, T)

\* lines 107-123
GetWork(t, T) ==
  /\ MonitorIn(t)
  /\ IF buffer[T] = <<>>
     THEN IF stopped
          THEN /\ MonitorOut(t, Ret("getWork", "StoppedBeforeWait"))
               /\ UNCHANGED data /\ UNCHANGED hist
          ELSE /\ Wait(t, "gw_wait", T)
               /\ UNCHANGED data /\ UNCHANGED ret /\ UNCHANGED hist
     ELSE TakeWork(t, T)

\* lines 115-123: resumed from wait(emptyQueuePerType[type])
WorkWoken(t) ==
  /\ Resumes(t, "gw_wait")
  /\ IF stopped
     THEN /\ Signal(t, EmptyWaiters(arg[t]), "gw_sig116", 0)
          /\ UNCHANGED data /\ UNCHANGED ret /\ UNCHANGED hist
     ELSE TakeWork(t, arg[t])

\* lines 117-118
WorkStopped(t) ==
  /\ Resumes(t, "gw_sig116")
  /\ MonitorOut(t, Ret("getWork", "StoppedAfterWait"))
  /\ UNCHANGED data /\ UNCHANGED hist

\* lines 124-125
WorkReturn(t) ==
  /\ Resumes(t, "gw_sig123")
  /\ MonitorOut(t, Ret("getWork", "Request"))
  /\ UNCHANGED data /\ UNCHANGED hist

\* ------------------------------------------------ continueWork (130-143) --
\* (mutant) the stopped test of lines 132-135 is missing
ContinueWorkNoStopTest(t, id) ==
  /\ MonitorIn(t)
  /\ MonitorOut(t, Ret("continueWork",
                       IF FindResult(results, id) # 0 THEN "true" ELSE "false"))
  /\ UNCHANGED data /\ UNCHANGED hist

\* (mutant) the ledger is not searched: true whenever the manager runs
ContinueWorkNoSearch(t, id) ==
  /\ MonitorIn(t)
  /\ MonitorOut(t, Ret("continueWork", IF stopped THEN "false" ELSE "true"))
  /\ UNCHANGED data /\ UNCHANGED hist

ContinueWork(t, id) ==
  /\ MonitorIn(t)
  /\ IF stopped
     THEN MonitorOut(t, Ret("continueWork", "false"))
     ELSE MonitorOut(t, Ret("continueWork",
                            IF FindResult(results, id) # 0 THEN "true" ELSE "false"))
  /\ UNCHANGED data /\ UNCHANGED hist

\* ----------------------------------------------- provideResult (146-157) --
\* (mutant) the slot is filled but notExpectedResult is not signalled
ProvideResultNoSignal(t, id) ==
  /\ MonitorIn(t)
  /\ LET i == FindResult(results, id)
     IN IF i = 0
        THEN /\ MonitorOut(t, Ret("provideResult", "void"))
             /\ UNCHANGED data /\ UNCHANGED hist
        ELSE /\ results' = [results EXCEPT ![i].result = id]
             /\ Signal(t, {}, "pr_sig155", 0)
             /\ UNCHANGED <<buffer, nextId, stopped, MAX_TOLERATED_QUEUE_SIZE, ret>>
             /\ UNCHANGED hist

\* (mutant) the result is written to the slot at the delivery end, whatever its id
ProvideResultFillsBack(t, id) ==
  /\ MonitorIn(t)
  /\ LET i == FindResult(results, id)
     IN IF i = 0
        THEN /\ MonitorOut(t, Ret("provideResult", "void"))
             /\ UNCHANGED data /\ UNCHANGED hist
        ELSE /\ results' = [results EXCEPT ![Len(results)].result = id]
             /\ Signal(t, ResultWaiters, "pr_sig155", 0)
             /\ UNCHANGED <<buffer, nextId, stopped, MAX_TOLERATED_QUEUE_SIZE, ret>>
             /\ UNCHANGED hist

\* (mutant) a result without a slot gets a new, filled slot
ProvideResultCreatesSlot(t, id) ==
  /\ MonitorIn(t)
  /\ LET i == FindResult(results, id)
     IN IF i = 0
        THEN /\ results' = PushFront(results, [id |-> id, result |-> id])
             /\ Signal(t, ResultWaiters, "pr_sig155", 0)
             /\ UNCHANGED <<buffer, nextId, stopped, MAX_TOLERATED_QUEUE_SIZE, ret>>
             /\ UNCHANGED hist
        ELSE /\ results' = [results EXCEPT ![i].result = id]
             /\ Signal(t, ResultWaiters, "pr_sig155", 0)
             /\ UNCHANGED <<buffer, nextId, stopped, MAX_TOLERATED_QUEUE_SIZE, ret>>
             /\ UNCHANGED hist

\* lines 147-155
ProvideResult(t, id) ==
  /\ MonitorIn(t)
  /\ LET i == FindResult(results, id)
     IN IF i = 0
        THEN /\ MonitorOut(t, Ret("provideResult", "void"))
             /\ UNCHANGED data /\ UNCHANGED hist
        ELSE /\ results' = [results EXCEPT ![i].result = id]
             /\ Signal(t, ResultWaiters, "pr_sig155", 0)
             /\ UNCHANGED <<buffer, nextId, stopped, MAX_TOLERATED_QUEUE_SIZE, ret>>
             /\ UNCHANGED hist

\* line 156
ProvideReturn(t) ==
  /\ Resumes(t, "pr_sig155")
  /\ MonitorOut(t, Ret("provideResult", "void"))
  /\ UNCHANGED data /\ UNCHANGED hist

\* -------------------------------------------------------- stop (161-174) --
\* lines 163-166
Stop(t) ==
  /\ MonitorIn(t)
  /\ stopped' = TRUE
  /\ Signal(t, ResultWaiters, "stop_sig166", 0)
  /\ UNCHANGED <<buffer, results, nextId, MAX_TOLERATED_QUEUE_SIZE, ret>>
  /\ UNCHANGED hist

\* lines 167-169: the loop over emptyQueuePerType; arg is the next index
StopSignalEmpty(t) ==
  /\ \/ Resumes(t, "stop_sig166")
     \/ Resumes(t, "stop_sig168") /\ arg[t] < NumTypes
  /\ Signal(t, EmptyWaiters(arg[t]), "stop_sig168", arg[t] + 1)
  /\ UNCHANGED data /\ UNCHANGED ret /\ UNCHANGED hist

\* lines 170-172: the loop over fullQueuePerType
StopSignalFull(t) ==
  /\ \/ Resumes(t, "stop_sig168") /\ arg[t] = NumTypes
     \/ Resumes(t, "stop_sig171") /\ arg[t] < NumTypes
  /\ LET i == IF pc[t] = "stop_sig168" THEN 0 ELSE arg[t]
     IN Signal(t, FullWaiters(i), "stop_sig171", i + 1)
  /\ UNCHANGED data /\ UNCHANGED ret /\ UNCHANGED hist

\* line 173
StopReturn(t) ==
  /\ Resumes(t, "stop_sig171") /\ arg[t] = NumTypes
  /\ MonitorOut(t, Ret("stop", "void"))
  /\ UNCHANGED data /\ UNCHANGED hist

\* line 163, monitorIn() on a monitor that is never released again: a call
\* made while another thread is inside enters once the monitor is released,
\* which is the same call made later; here the caller stays in monitorIn().
StopBlocked(t) ==
  /\ running = Leaked
  /\ pc[t] = "idle"
  /\ pc' = [pc EXCEPT ![t] = "monitorIn"]
  /\ UNCHANGED data /\ UNCHANGED <<running, arg, ret>>
  /\ UNCHANGED hist

\* ----------------------------------------------------------------- Next --
\* a thread inside the monitor runs on to the next hand-over
Continue(t) ==
  \/ RequestWoken(t)
  \/ RequestStopped(t)
  \/ RequestReturn(t)
  \/ AbortQueuedReturn(t)
  \/ AbortLedgerErase(t)
  \/ NextResultWoken(t)
  \/ NextResultStopped(t)
  \/ WorkWoken(t)
  \/ WorkStopped(t)
  \/ WorkReturn(t)
  \/ ProvideReturn(t)
  \/ StopSignalEmpty(t)
  \/ StopSignalFull(t)
  \/ StopReturn(t)

\* Idle threads are interchangeable (pc = "idle", arg = 0): the next call is
\* made by the lowest-numbered one.
Caller(t) == \A u \in DOMAIN pc : pc[u] = "idle" => t <= u

Next ==
  \/ \E t \in Threads, T \in Types : Caller(t) /\ RequestComputation(t, T)
  \/ \E t \in Threads, id \in Ids : Caller(t) /\ AbortComputation(t, id)
  \/ \E t \in Threads : Caller(t) /\ GetNextResult(t)
  \/ \E t \in Threads, T \in Types : Caller(t) /\ GetWork(t, T)
  \/ \E t \in Threads, id \in Ids : Caller(t) /\ ContinueWork(t, id)
  \/ \E t \in Threads, id \in Ids : Caller(t) /\ ProvideResult(t, id)
  \/ \E t \in Threads : Caller(t) /\ Stop(t)
  \/ \E t \in Threads : Caller(t) /\ StopBlocked(t)
  \/ \E t \in Threads : Continue(t)

Spec == Init /\ [][Next]_vars

\* the thread inside the monitor is scheduled until it leaves or suspends
SpecFair == Spec /\ WF_vars(\E t \in Threads : Continue(t))

\* stop() has been called: it set the flag, or its caller sits in monitorIn()
StopCalled == stopped \/ \E t \in DOMAIN pc : pc[t] = "monitorIn"

\* stop() has been called and has returned
StopCompleted == stopped /\ \A t \in DOMAIN pc : pc[t] \notin StopLabels

\* -------------------------------------- a workload without abort or stop --
\* One engine per type loops getWork / provideResult, one client submits,
\* one client loops getNextResult.
Unfilled(id) == FindResult(results, id) # 0 /\ results[FindResult(results, id)].result = NoValue

\* the Request the engine of type T took and has not answered yet
Computing(T) == {id \in Ids : <<id, T>> \in dispatched /\ Unfilled(id)}

EngineGetWork(T)       == Computing(T) = {} /\ GetWork(EngineOf(T), T)
EngineProvideResult(T) == \E id \in Computing(T) : ProvideResult(EngineOf(T), id)

LiveContinue(t) ==
  \/ RequestWoken(t)
  \/ RequestReturn(t)
  \/ NextResultWoken(t)
  \/ WorkWoken(t)
  \/ WorkReturn(t)
  \/ ProvideReturn(t)

NextLive ==
  \/ \E T \in Types : RequestComputation(Requester, T)
  \/ GetNextResult(Consumer)
  \/ \E T \in Types : EngineGetWork(T)
  \/ \E T \in Types : EngineProvideResult(T)
  \/ \E t \in LiveThreads : LiveContinue(t)

SpecLive ==
  /\ InitOn(LiveThreads, MaxQueueSize, 0)
  /\ [][NextLive]_vars
  /\ WF_vars(GetNextResult(Consumer))
  /\ \A T \in Types : WF_vars(EngineGetWork(T)) /\ WF_vars(EngineProvideResult(T))
  /\ WF_vars(\E t \in LiveThreads : LiveContinue(t))

\* ------------------------------ a workload of one type on a longer queue --
\* Clients submit and abort computations of the first type while engines call
\* getWork for it; the constructor argument leaves room for FifoQueueSize
\* Requests.
FifoType == 0

FifoContinue(t) ==
  \/ RequestReturn(t)
  \/ AbortQueuedReturn(t)
  \/ AbortLedgerErase(t)
  \/ WorkWoken(t)
  \/ WorkReturn(t)

NextFifo ==
  \/ \E t \in Threads : Caller(t) /\ RequestComputation(t, FifoType)
  \/ \E t \in Threads, id \in Ids : Caller(t) /\ AbortComputation(t, id)
  \/ \E t \in Threads : Caller(t) /\ GetWork(t, FifoType)
  \/ \E t \in Threads : FifoContinue(t)

SpecFifo == InitOn(Threads, FifoQueueSize, 0) /\ [][NextFifo]_vars
\* ------------------------------- engines that answer only what they took --
\* As Spec, but provideResult is called only with the id of a Request that
\* getWork returned.
EngineResult(t, id) == id \in {d[1] : d \in dispatched} /\ ProvideResult(t, id)

NextEngines ==
  \/ \E t \in Threads, T \in Types : Caller(t) /\ RequestComputation(t, T)
  \/ \E t \in Threads, id \in Ids : Caller(t) /\ AbortComputation(t, id)
  \/ \E t \in Threads : Caller(t) /\ GetNextResult(t)
  \/ \E t \in Threads, T \in Types : Caller(t) /\ GetWork(t, T)
  \/ \E t \in Threads, id \in Ids : Caller(t) /\ ContinueWork(t, id)
  \/ \E t \in Threads, id \in Ids : Caller(t) /\ EngineResult(t, id)
  \/ \E t \in Threads : Caller(t) /\ Stop(t)
  \/ \E t \in Threads : Caller(t) /\ StopBlocked(t)
  \/ \E t \in Threads : Continue(t)

SpecEngines == Init /\ [][NextEngines]_vars

\* ------------------------------------- a manager that is not the first one --
\* nextId is static: a manager constructed after another manager of the same
\* process has issued IdsBefore ids starts with the counter where that one
\* left it.
SpecSecondManager == InitOn(Threads, MaxQueueSize, IdsBefore) /\ [][Next]_vars

\* ================================================================ claims ==
Range(s)     == {s[i] : i \in 1..Len(s)}
Aborted      == abortedQ \cup abortedL
LedgerIds    == {results[i].id : i \in 1..Len(results)}
Filled(id)   == FindResult(results, id) # 0 /\ results[FindResult(results, id)].result # NoValue

\* C1: the Results returned by getNextResult have strictly ascending ids, and
\* a Result with id j is never returned while a submission with a smaller id
\* is neither delivered nor aborted.
C1_ResultOrder ==
  /\ \A a, b \in 1..Len(delivered) : a < b => delivered[a] < delivered[b]
  /\ \A j \in Range(delivered) :
       \A i \in 0..(j - 1) : i \in Range(delivered) \/ i \in Aborted

\* ids 0 and 2 were delivered in this order around the aborted in-flight id 1
C1_Witness == delivered = <<0, 2>> /\ 1 \in abortedL

\* C3: no per-type queue ever holds more than MAX_TOLERATED_QUEUE_SIZE Requests.
C3_QueueBound == \A T \in Types : Len(buffer[T]) <= MAX_TOLERATED_QUEUE_SIZE

\* getWork popped and handed the monitor to a client waiting on fullQueue,
\* which queued its Request: the queue is full again
C3_Witness ==
  \E g, r \in DOMAIN pc :
    /\ pc[g] = "gw_sig123" /\ running # g
    /\ pc[r] = "rc_sig41"
    /\ \E T \in Types : Len(buffer[T]) = MAX_TOLERATED_QUEUE_SIZE

\* C7: once stop() has returned, no thread is suspended on fullQueue,
\* emptyQueue or resultReady, and none ever gets suspended there.
C7_NoWaitAfterStop == StopCompleted => \A t \in DOMAIN pc : pc[t] \notin WaitLabels

\* after stop() returned, a getWork call found its queue empty and threw
\* instead of waiting
C7_Witness ==
  /\ StopCompleted
  /\ running = Free
  /\ ret = Ret("getWork", "StoppedBeforeWait")


C4_StopReleasesAll ==
  \A t \in Threads : (StopCalled /\ pc[t] \in WaitLabels) ~> (pc[t] \notin WaitLabels)

\* C5: a requestComputation call made after stop() has returned fails with
\* Stopped and leaves the queues, the ledger and the id counter unchanged.
C5_NoRequestAfterStop ==
  [][\A t \in Threads, T \in Types :
       (StopCompleted /\ RequestComputation(t, T))
         => (IsStopped(ret') /\ UNCHANGED <<buffer, results, nextId>>)]_vars

\* C6: a getWork or getNextResult call made after stop() has returned fails
\* with Stopped: it returns no Request and no Result.
C6_NoWorkNoResultAfterStop ==
  [][\A t \in Threads :
       /\ \A T \in Types : (StopCompleted /\ GetWork(t, T))
            => (IsStopped(ret') /\ dispatched' = dispatched)
       /\ (StopCompleted /\ GetNextResult(t))
            => (IsStopped(ret') /\ delivered' = delivered)]_vars

\* C8: once abortComputation(k) has found k (queued, dispatched or filled),
\* no getNextResult call returns a Result with id k.
C8_AbortedNeverDelivered ==
  [][delivered' # delivered => Back(delivered') \notin Aborted]_vars

\* C9: when abortComputation(k) of a still queued Request has returned, the
\* ledger slot of k is gone as well.
C9_AbortQueuedRemovesSlot ==
  (\A t \in DOMAIN pc : pc[t] # "ab_sig58") => \A k \in abortedQ : k \notin LedgerIds

\* C10: abortComputation(i) of the empty head slot i, with a client blocked in
\* getNextResult and the next slot j filled, hands the monitor to that client,
\* which returns the Result of j before abortComputation goes on: when the
\* abort returns, j has been delivered.
C10_AbortHeadWakesClient ==
  [][\A t \in Threads :
       (/\ AbortLedgerErase(t)
        /\ ResultWaiters # {}
        /\ Len(results) >= 2
        /\ Back(results).id = arg[t]
        /\ \E T \in Types : <<arg[t], T>> \in dispatched
        /\ \E T \in Types : <<results[Len(results) - 1].id, T>> \in dispatched
        /\ results[Len(results) - 1].result # NoValue)
         => results[Len(results) - 1].id \in Range(delivered')]_vars

\* C11: abortComputation(id) with an id that is in no queue and not in the
\* ledger changes neither queues, ledger nor stop flag and releases the
\* monitor: the caller is back outside and the next call can enter.
C11_UnknownAbortNoOp ==
  [][\A t \in Threads, id \in Ids :
       (/\ AbortComputation(t, id)
        /\ \A T \in Types : id \notin Range(buffer[T])
        /\ id \notin LedgerIds)
         => (/\ UNCHANGED <<buffer, results, stopped>>
             /\ running' = Free)]_vars

\* every operation that was called has returned and the monitor is free
Quiescent == running = Free /\ \A t \in DOMAIN pc : pc[t] = "idle"

\* C12: once stop() has set the flag, continueWork(id) returns false for
\* every id, also for an id whose ledger slot exists and was never aborted.
C12_ContinueWorkFalseAfterStop ==
  [][\A t \in Threads, id \in Ids :
       (stopped /\ ContinueWork(t, id)) => ret' = Ret("continueWork", "false")]_vars

\* stop() has returned, every id has a ledger slot, none was aborted, and the
\* last call that returned is a continueWork that answered false
C12_Witness ==
  /\ StopCompleted
  /\ Quiescent
  /\ LedgerIds = Ids
  /\ Aborted = {}
  /\ ret = Ret("continueWork", "false")

\* ids of the Requests returned by getWork
DispatchedIds == {d[1] : d \in dispatched}

\* C13: while the manager is not stopped, continueWork(id) returns true
\* exactly when a ledger slot with that id exists; for a Request handed out by
\* getWork and not yet delivered that is: true until abortComputation(id) has
\* run, false afterwards.  The call returns without waiting and changes
\* neither the queues nor the ledger.
C13_ContinueWorkIffSlot ==
  [][\A t \in Threads, id \in Ids :
       (~stopped /\ ContinueWork(t, id))
         => (/\ ret' = Ret("continueWork", IF id \in LedgerIds THEN "true" ELSE "false")
             /\ (id \in DispatchedIds /\ id \notin Range(delivered))
                  => (ret'.kind = "true" <=> id \notin abortedL)
             /\ pc'[t] = "idle"
             /\ UNCHANGED <<buffer, results>>)]_vars

\* every id was handed out by getWork and then aborted, nothing was
\* delivered, and the last call that returned is a continueWork: false
C13_Witness ==
  /\ ~stopped
  /\ Quiescent
  /\ DispatchedIds = Ids
  /\ abortedL = Ids
  /\ delivered = <<>>
  /\ ret = Ret("continueWork", "false")

\* C14: provideResult(r) for an id without a ledger slot changes neither the
\* ledger nor the queues and creates no slot, and an id that was issued and
\* has lost its slot undelivered is never returned by getNextResult.
C14_ProvideWithoutSlotDropped ==
  [][/\ \A t \in Threads, id \in Ids :
          (ProvideResult(t, id) /\ id \notin LedgerIds)
            => (UNCHANGED <<buffer, results>> /\ pc'[t] = "idle")
     /\ \A id \in Ids :
          (id < nextId /\ id \notin LedgerIds /\ id \notin Range(delivered))
            => id \notin Range(delivered')]_vars

\* id 0 was handed out by getWork and aborted, the ledger is empty, and the
\* last call that returned is a provideResult
C14_Witness ==
  /\ Quiescent
  /\ nextId = 1
  /\ DispatchedIds = {0}
  /\ abortedL = {0}
  /\ results = <<>>
  /\ delivered = <<>>
  /\ ret = Ret("provideResult", "void")

\* C15: getWork(T) returns the Request with the smallest id in queue[T] and
\* leaves the others in place and in order, so successive getWork(T) calls
\* return the Requests of type T in submission order, also when
\* abortComputation took one out of the middle.
C15_WorkFifo ==
  [][\A d \in dispatched' \ dispatched :
       /\ \A k \in Range(buffer[d[2]]) : d[1] <= k
       /\ buffer[d[2]] = Append(buffer'[d[2]], d[1])
       /\ \A e \in dispatched : e[2] = d[2] => e[1] < d[1]]_vars

\* Requests 0, 1, 2 were queued, abortComputation(1) took the middle one out
\* and returned, and the getWork that now runs took 0 and left 2
C15_Witness ==
  \E t \in Threads :
    /\ running = t /\ pc[t] = "gw_sig123"
    /\ \A u \in Threads \ {t} : pc[u] = "idle"
    /\ ret = Ret("abortComputation", "void")
    /\ abortedQ = {1} /\ abortedL = {}
    /\ dispatched = {<<0, FifoType>>}
    /\ buffer[FifoType] = <<2>>

\* ids this manager has issued: each is in the ledger until it is delivered
\* or aborted
Issued == LedgerIds \cup Range(delivered) \cup Aborted

\* thread t gets past line 41 of requestComputation with its id in arg
TakesId(t) == pc'[t] = "rc_sig41" /\ pc[t] # "rc_sig41"

\* C16: the ids returned by requestComputation on one manager are 0, 1, 2, ...
\* without gap or repetition, taken in the order in which the calls get past
\* the full-queue wait; a call that fails with Stopped takes no id; a later
\* call returns a larger id than any earlier one.
C16_IdSequence ==
  /\ [](Issued = 0..(Cardinality(Issued) - 1))
  /\ [][\A t \in Threads :
         IF TakesId(t)
         THEN /\ arg'[t] = nextId
              /\ nextId' = nextId + 1
              /\ \A k \in Issued : k < arg'[t]
              /\ Issued' = Issued \cup {arg'[t]}
         ELSE (\A u \in Threads : ~TakesId(u))
                => (nextId' = nextId /\ Issued' = Issued)]_vars

\* C17: a requestComputation(T) that finds queue[T] at capacity does not
\* return: it waits on fullQueue[T].  On a running manager it leaves the wait
\* only when a getWork(T) or an abortComputation of a queued type-T Request
\* hands it the monitor with a free place; it then queues its Request and
\* takes the next id.  A request of a type whose queue has room is not held up.
C17_Backpressure ==
  [][/\ \A t \in Threads, T \in Types :
          (RequestComputation(t, T) /\ ~stopped)
            => IF Len(buffer[T]) >= MAX_TOLERATED_QUEUE_SIZE
               THEN pc'[t] = "rc_wait" /\ UNCHANGED <<buffer, results, nextId, ret>>
               ELSE pc'[t] = "rc_sig41" /\ arg'[t] = nextId
     /\ \A t \in Threads :
          (pc[t] = "rc_wait" /\ pc'[t] # "rc_wait" /\ ~stopped)
            => (/\ \E s \in Threads :
                     /\ running # s
                     /\ \/ pc[s] = "gw_sig123" /\ <<arg[s], arg[t]>> \in dispatched
                        \/ pc[s] = "ab_sig58"
                /\ Len(buffer[arg[t]]) < MAX_TOLERATED_QUEUE_SIZE
                /\ buffer' = [buffer EXCEPT ![arg[t]] = PushFront(@, nextId)]
                /\ pc'[t] = "rc_sig41" /\ arg'[t] = nextId
                /\ nextId' = nextId + 1)]_vars

\* a client blocked on a full queue was resumed by the abortComputation of
\* the queued Request (suspended in its signal) and has queued its own
C17_Witness ==
  \E r, s \in Threads :
    /\ running = r /\ pc[r] = "rc_sig41"
    /\ pc[s] = "ab_sig58"
    /\ ~stopped

\* positions of the ledger slots with this id
SlotsOf(id) == {j \in 1..Len(results) : results[j].id = id}

\* C18: when engines call provideResult only for ids they got from getWork,
\* every Request in a per-type queue has exactly one ledger slot with its id
\* and that slot is empty; so a filled slot belongs to an id in no queue.
C18_QueuedHasEmptySlot ==
  /\ \A T \in Types : \A id \in Range(buffer[T]) :
       /\ Cardinality(SlotsOf(id)) = 1
       /\ \A j \in SlotsOf(id) : results[j].result = NoValue
  /\ \A j \in 1..Len(results) :
       results[j].result # NoValue => \A T \in Types : results[j].id \notin Range(buffer[T])

\* a Request is queued while the slot of another one is filled
C18_Witness ==
  /\ \E T \in Types : buffer[T] # <<>>
  /\ \E j \in 1..Len(results) : results[j].result # NoValue
  /\ Quiescent

\* C19: the ids of the ledger slots increase strictly from the delivery end
\* (back) to the newest slot (front), so no id has two slots; and an id is
\* in at most one per-type queue, at most once.
C19_LedgerAscending ==
  /\ \A i, j \in 1..Len(results) : i < j => results[i].id > results[j].id
  /\ \A T, U \in Types : \A i \in 1..Len(buffer[T]), j \in 1..Len(buffer[U]) :
       buffer[T][i] = buffer[U][j] => (T = U /\ i = j)

\* the ledger holds slots 0 and 2 around the erased slot of 1, and Request 2
\* is still queued
C19_Witness ==
  /\ Len(results) = 2
  /\ results[1].id = 2 /\ results[2].id = 0
  /\ 1 \in abortedL
  /\ \E T \in Types : 2 \in Range(buffer[T])

C21_SingleCheckWaitsSafe ==
  \A t \in Threads :
    (running = t /\ ~stopped)
      => /\ pc[t] = "gw_wait" => buffer[arg[t]] # <<>>
         /\ pc[t] = "rc_wait" => Len(buffer[arg[t]]) < MAX_TOLERATED_QUEUE_SIZE

\* an engine that waited on an empty queue has just been handed the monitor
\* by a client suspended in its signal at line 41, while another client is
\* still blocked on a full queue
C21_Witness ==
  \E g, r, w \in Threads :
    /\ running = g /\ pc[g] = "gw_wait"
    /\ pc[r] = "rc_sig41"
    /\ pc[w] = "rc_wait"
    /\ ~stopped

\* C22: whenever the monitor is free and the manager is not stopped, no
\* thread is suspended in getNextResult while the ledger is non-empty and its
\* head slot is filled.
C22_NoLostWakeup ==
  (running = Free /\ ~stopped)
    => ~(ResultWaiters # {} /\ results # <<>> /\ Back(results).result # NoValue)

=============================================================================
